---- MODULE Spec2Model ----
(***************************************************************************)
(* Smart Todo List: the React hooks (useTasks, useContext, useCategories,   *)
(* useTaskStatistics), the task form and the page filters, talking over     *)
(* HTTP to the tasks / context / categories API.                            *)
(*                                                                          *)
(* Strings the code inspects character by character (title, description,   *)
(* search query) are sequences of one-character strings; other strings are  *)
(* TLA+ strings.  A nullable value is <<>> (null) or <<v>>.                 *)
(***************************************************************************)
EXTENDS Bags, FiniteSets, Integers, Sequences, TLC

VARIABLES
    tasksTable,       \* server: rows of table tasks, id -> row
    contextTable,     \* server: rows of table context_entries
    categoriesTable,  \* server: rows of table categories
    nextId,           \* server: ids handed out so far + 1 (ids are never reused)
    now,              \* server clock
    msgs,             \* HTTP requests and responses in flight (a bag)
    tasks,            \* useTasks: tasks
    entries,          \* useContext: entries
    categories,       \* useCategories: categories
    loading,          \* loading flag of each hook
    error,            \* error state of each list hook (<<>> is null)
    statistics,       \* useTaskStatistics: statistics (<<>> is null)
    toast,            \* the notification raised by the last step ("none" if none)
    lastCall,         \* the last API call made outside the hooks and its answer
    deleted,          \* history: task ids whose delete succeeded
    formData,         \* TaskForm: formData
    aiSuggestions,    \* TaskForm: aiSuggestions (<<>> is null)
    loadingAI,        \* TaskForm: loadingAI
    showAISuggestions,\* TaskForm: showAISuggestions
    formTasks,        \* TaskForm: tasks of the form's own useTasks instance
    isSubmitting,     \* TaskForm: isSubmitting
    showTaskForm,     \* TasksPage / Dashboard: showTaskForm
    selectedTask,     \* TasksPage / Dashboard: selectedTask (<<>> is null)
    formSession,      \* history: how many times the task form has been opened
    filters,          \* TasksPage: filters / Dashboard: filter
    searchQuery,      \* TasksPage: searchQuery
    sortBy,           \* TasksPage: sortBy
    page              \* the page that is mounted

serverVars == <<tasksTable, contextTable, categoriesTable, nextId, now>>
hookVars   == <<tasks, entries, categories, loading, error, statistics>>
sessionVars == <<isSubmitting, showTaskForm, selectedTask, formSession>>
formVars   == <<formData, aiSuggestions, loadingAI, showAISuggestions, formTasks, sessionVars>>
pageVars   == <<filters, searchQuery, sortBy, page>>
vars == <<serverVars, msgs, hookVars, toast, lastCall, deleted, formVars, pageVars>>

(***************************************************************************)
(* Bounds                                                                   *)
(***************************************************************************)
\* writes the server accepts while a page is mounted: the clock stops at MaxClock
MaxClock == 2
\* HTTP exchanges a page may add to those in flight
MaxInFlight == 1
\* the clock's limit when the API is called directly
MaxApiClock == 3
\* suggestion requests of the task form in flight at once
MaxFormInFlight == 2
\* longest task list the page filters are tried on
MaxListLen == 2

(***************************************************************************)
(* Program constants                                                        *)
(***************************************************************************)
MinPriority     == 1
MaxPriority     == 10
DefaultPriority == 5
Statuses == {"pending", "in_progress", "completed", "cancelled"}
DefaultStatus == "pending"
SourceTypes == {"email", "whatsapp", "notes", "calendar"}

Null == <<>>
Some(v) == <<v>>

IdSpace == 1..MaxApiClock

\* the limits in force for the component that is mounted
ClockLimit == IF page \in {"none", "hook"} THEN MaxApiClock ELSE MaxClock
InFlightLimit ==
    IF page \in {"form", "tasks+form", "hook"} THEN MaxFormInFlight ELSE MaxInFlight

(***************************************************************************)
(* JavaScript string helpers                                                *)
(***************************************************************************)
IsWhitespace(c) == c = " "

RECURSIVE TrimStart(_)
TrimStart(s) ==
    IF s = <<>> THEN <<>>
    ELSE IF IsWhitespace(Head(s)) THEN TrimStart(Tail(s)) ELSE s

RECURSIVE TrimEnd(_)
TrimEnd(s) ==
    IF s = <<>> THEN <<>>
    ELSE IF IsWhitespace(s[Len(s)]) THEN TrimEnd(SubSeq(s, 1, Len(s) - 1)) ELSE s

\* String.prototype.trim
Trim(s) == TrimEnd(TrimStart(s))

LowerChar(c) == CASE c = "A" -> "a" [] c = "B" -> "b" [] OTHER -> c

\* String.prototype.toLowerCase
ToLowerCase(s) == [i \in 1..Len(s) |-> LowerChar(s[i])]

\* String.prototype.includes
Includes(s, q) ==
    \E i \in 0..(Len(s) - Len(q)) : SubSeq(s, i + 1, i + Len(q)) = q

Digit(d) ==
    CASE d = 0 -> "0" [] d = 1 -> "1" [] d = 2 -> "2" [] d = 3 -> "3"
      [] d = 4 -> "4" [] d = 5 -> "5" [] d = 6 -> "6" [] d = 7 -> "7"
      [] d = 8 -> "8" [] d = 9 -> "9"

\* Number.prototype.toString of an integer
RECURSIVE NumberToString(_)
NumberToString(n) ==
    IF n < 0 THEN "-" \o NumberToString(0 - n)
    ELSE IF n < 10 THEN Digit(n)
    ELSE NumberToString(n \div 10) \o Digit(n % 10)

\* JavaScript truthiness of a string
Truthy(s) == s # ""

(***************************************************************************)
(* List helpers of the hooks                                                *)
(***************************************************************************)
\* [x, ...prev]
Prepend(x, prev) == <<x>> \o prev

\* a replace that adds the item when no entry has the id
ReplaceById_upsert(prev, id, x) ==
    IF \E i \in 1..Len(prev) : prev[i].id = id
    THEN [i \in 1..Len(prev) |-> IF prev[i].id = id THEN x ELSE prev[i]]
    ELSE Append(prev, x)

\* prev.map(e => e.id === id ? x : e)
ReplaceById(prev, id, x) ==
    [i \in 1..Len(prev) |-> IF prev[i].id = id THEN x ELSE prev[i]]

RECURSIVE RemoveById(_, _)
\* prev.filter(e => e.id !== id)
RemoveById(prev, id) ==
    IF prev = <<>> THEN <<>>
    ELSE IF Head(prev).id # id THEN <<Head(prev)>> \o RemoveById(Tail(prev), id)
    ELSE RemoveById(Tail(prev), id)

\* list.filter(t => t.status === status).length
CountStatus(list, status) ==
    Cardinality({i \in 1..Len(list) : list[i].status = status})

(***************************************************************************)
(* HTTP exchanges (lib/api.ts)                                              *)
(***************************************************************************)
Resources == {"tasks", "context", "categories"}

Req(api, id, body) ==
    [api |-> api, id |-> id, body |-> body, phase |-> "req",
     code |-> "", data |-> <<>>, ext |-> "none", session |-> 0]

\* HTTP status codes the API layer answers with
OK == "200"
NotFound == "404"
ValidationError == "422"
Unavailable == "503"

Resp(m, code, data) == [m EXCEPT !.phase = "resp", !.code = code, !.data = data]

\* method and path of the five calls tasksApi, contextApi and categoriesApi
\* have in common
Route(op, r) ==
    CASE op = "getAll"  -> "GET /" \o r \o "/"
      [] op = "getById" -> "GET /" \o r \o "/{id}"
      [] op = "create"  -> "POST /" \o r \o "/"
      [] op = "update"  -> "PUT /" \o r \o "/{id}"
      [] op = "delete"  -> "DELETE /" \o r \o "/{id}"

\* tasksApi / contextApi / categoriesApi: getAll, getById, create, update, delete
api_getAll(r)         == Req(Route("getAll", r), 0, <<>>)
api_getById(r, id)    == Req(Route("getById", r), id, <<>>)
api_create(r, x)      == Req(Route("create", r), 0, <<x>>)
api_update(r, id, x)  == Req(Route("update", r), id, <<x>>)
api_delete(r, id)     == Req(Route("delete", r), id, <<>>)

tasksApi_getAISuggestions(data) == Req("POST /tasks/ai-suggestions/", 0, <<data>>)
tasksApi_getStatistics          == Req("GET /tasks/statistics/", 0, <<>>)
contextApi_analyze(data)        == Req("POST /context/analyze/", 0, <<data>>)

InFlight == BagToSet(msgs)
Requests(api)  == {m \in InFlight : m.phase = "req" /\ m.api = api}
Responses(api) == {m \in InFlight : m.phase = "resp" /\ m.api = api}
Fulfilled(api) == {m \in Responses(api) : m.code = OK}
Rejected(api)  == {m \in Responses(api) : m.code # OK}

\* err.message of the axios error for a failed exchange
ErrMessage(m) == "Request failed with status code " \o m.code

\* the client sends request m
Send(m) ==
    /\ BagCardinality(msgs) < InFlightLimit
    /\ msgs' = msgs (+) SetToBag({m})

\* the server answers request m with response r
Reply(m, r) == msgs' = (msgs (-) SetToBag({m})) (+) SetToBag({r})

\* the promise of exchange m settles in the client
Settle(m) == msgs' = msgs (-) SetToBag({m})

(***************************************************************************)
(* API layer and store for tasks (backend; the schema is in README.md)      *)
(***************************************************************************)
Field(p, f, default) == IF f \in DOMAIN p THEN p[f] ELSE default

HasId(table, id) == \E r \in table : r.id = id
RowOf(table, id) == CHOOSE r \in table : r.id = id

\* an id generator that hands out the smallest id not in use
NewId_reuse ==
    CHOOSE i \in 1..nextId :
        /\ ~HasId(tasksTable \cup contextTable \cup categoriesTable, i)
        /\ \A j \in 1..(i - 1) :
              HasId(tasksTable \cup contextTable \cup categoriesTable, j)

\* gen_random_uuid(): a fresh id
NewId == nextId

\* a range check that forgets the upper limit
InPriorityRange_noUpper(n) == n >= MinPriority

\* CHECK (priority_score >= 1 AND priority_score <= 10)
InPriorityRange(n) == n >= MinPriority /\ n <= MaxPriority

ValidTaskFields(p) ==
    /\ "title" \in DOMAIN p => p.title # <<>>
    /\ "priority_score" \in DOMAIN p => InPriorityRange(p.priority_score)
    /\ "status" \in DOMAIN p => p.status \in Statuses

ValidTaskCreate(p) == "title" \in DOMAIN p /\ ValidTaskFields(p)

NewTaskRow(id, p, t) ==
    [id             |-> id,
     title          |-> p.title,
     description    |-> Field(p, "description", <<>>),
     category       |-> Field(p, "category", ""),
     priority_score |-> Field(p, "priority_score", DefaultPriority),
     deadline       |-> Field(p, "deadline", Null),
     status         |-> Field(p, "status", DefaultStatus),
     created_at     |-> t,
     updated_at     |-> t]

\* merge-patch: only supplied fields change, updated_at refreshed
MergeTaskPatch(row, p, t) ==
    [id             |-> row.id,
     title          |-> Field(p, "title", row.title),
     description    |-> Field(p, "description", row.description),
     category       |-> Field(p, "category", row.category),
     priority_score |-> Field(p, "priority_score", row.priority_score),
     deadline       |-> Field(p, "deadline", row.deadline),
     status         |-> Field(p, "status", row.status),
     created_at     |-> row.created_at,
     updated_at     |-> t]

\* a flag that looks at the deadline only
IsOverdue_deadlineOnly(row, t) ==
    /\ row.deadline # Null
    /\ row.deadline[1] < t

\* derived at read time: deadline in the past and status not completed
IsOverdue(row, t) ==
    /\ row.deadline # Null
    /\ row.deadline[1] < t
    /\ row.status # "completed"

\* the Task a response carries: the row plus the derived field
TaskView(row, t) ==
    [id             |-> row.id,
     title          |-> row.title,
     description    |-> row.description,
     category       |-> row.category,
     priority_score |-> row.priority_score,
     deadline       |-> row.deadline,
     status         |-> row.status,
     is_overdue     |-> IsOverdue(row, t),
     created_at     |-> row.created_at,
     updated_at     |-> row.updated_at]

RECURSIVE RowsInOrder(_)
\* the rows of a table in insertion (id) order
RowsInOrder(table) ==
    IF table = {} THEN <<>>
    ELSE LET first == CHOOSE r \in table : \A q \in table : r.id <= q.id
         IN  <<first>> \o RowsInOrder(table \ {first})

\* list() with no filters
ListTasks(table, t) ==
    LET rows == RowsInOrder(table)
    IN  [i \in 1..Len(rows) |-> TaskView(rows[i], t)]

EmptyStatistics ==
    [total_tasks |-> 0, pending_tasks |-> 0, in_progress_tasks |-> 0,
     completed_tasks |-> 0, overdue_tasks |-> 0, high_priority_tasks |-> 0,
     categories |-> {}, priority_sum |-> 0]

Count(b) == IF b THEN 1 ELSE 0

RECURSIVE ScanStatistics(_, _, _)
\* one pass over the current task set
ScanStatistics(rows, t, acc) ==
    IF rows = <<>> THEN acc
    ELSE LET r == Head(rows) IN
         ScanStatistics(Tail(rows), t,
            [total_tasks         |-> acc.total_tasks + 1,
             pending_tasks       |-> acc.pending_tasks + Count(r.status = "pending"),
             in_progress_tasks   |-> acc.in_progress_tasks + Count(r.status = "in_progress"),
             completed_tasks     |-> acc.completed_tasks + Count(r.status = "completed"),
             overdue_tasks       |-> acc.overdue_tasks +
                                     Count(/\ r.deadline # Null
                                           /\ r.deadline[1] < t
                                           /\ r.status \notin {"completed", "cancelled"}),
             high_priority_tasks |-> acc.high_priority_tasks + Count(r.priority_score >= 7),
             categories          |-> acc.categories \cup {r.category},
             priority_sum        |-> acc.priority_sum + r.priority_score])

\* statistics whose total leaves the cancelled tasks out
Statistics_activeOnly(table, t) ==
    LET acc == ScanStatistics(RowsInOrder(table), t, EmptyStatistics) IN
    [total_tasks         |-> acc.pending_tasks + acc.in_progress_tasks
                                + acc.completed_tasks,
     pending_tasks       |-> acc.pending_tasks,
     in_progress_tasks   |-> acc.in_progress_tasks,
     completed_tasks     |-> acc.completed_tasks,
     overdue_tasks       |-> acc.overdue_tasks,
     high_priority_tasks |-> acc.high_priority_tasks,
     categories          |-> acc.categories,
     average_priority    |-> IF acc.total_tasks = 0 THEN 0
                             ELSE (acc.priority_sum * 100) \div acc.total_tasks]

\* statistics(): average_priority is kept in hundredths, 0 for no tasks
Statistics(table, t) ==
    LET acc == ScanStatistics(RowsInOrder(table), t, EmptyStatistics) IN
    [total_tasks         |-> acc.total_tasks,
     pending_tasks       |-> acc.pending_tasks,
     in_progress_tasks   |-> acc.in_progress_tasks,
     completed_tasks     |-> acc.completed_tasks,
     overdue_tasks       |-> acc.overdue_tasks,
     high_priority_tasks |-> acc.high_priority_tasks,
     categories          |-> acc.categories,
     average_priority    |-> IF acc.total_tasks = 0 THEN 0
                             ELSE (acc.priority_sum * 100) \div acc.total_tasks]

(***************************************************************************)
(* Store for context entries and categories (backend)                       *)
(***************************************************************************)
ValidContextFields(p) ==
    /\ "content" \in DOMAIN p => p.content # ""
    /\ "source_type" \in DOMAIN p => p.source_type \in SourceTypes

ValidContextCreate(p) ==
    /\ "content" \in DOMAIN p /\ "source_type" \in DOMAIN p
    /\ ValidContextFields(p)

NewContextRow(id, p, t) ==
    [id |-> id, content |-> p.content, source_type |-> p.source_type,
     is_processed |-> FALSE, created_at |-> t]

MergeContextPatch(row, p) ==
    [id |-> row.id,
     content      |-> Field(p, "content", row.content),
     source_type  |-> Field(p, "source_type", row.source_type),
     is_processed |-> row.is_processed,
     created_at   |-> row.created_at]

\* the external model's analysis of a text, or the neutral result when the
\* external call fails
Analysis(modelWorks) ==
    IF modelWorks
    THEN [sentiment |-> "positive", keywords |-> {"meeting"}, relevance |-> 1]
    ELSE [sentiment |-> "neutral", keywords |-> {}, relevance |-> 0]

ValidCategoryFields(table, p) ==
    "name" \in DOMAIN p =>
        /\ p.name # ""
        /\ ~\E r \in table : r.name = p.name

ValidCategoryCreate(table, p) ==
    "name" \in DOMAIN p /\ ValidCategoryFields(table, p)

NewCategoryRow(id, p, t) ==
    [id |-> id, name |-> p.name,
     description     |-> Field(p, "description", ""),
     usage_frequency |-> 0,
     is_active       |-> Field(p, "is_active", TRUE),
     created_at |-> t, updated_at |-> t]

MergeCategoryPatch(row, p, t) ==
    [id |-> row.id,
     name            |-> Field(p, "name", row.name),
     description     |-> Field(p, "description", row.description),
     usage_frequency |-> row.usage_frequency,
     is_active       |-> Field(p, "is_active", row.is_active),
     created_at |-> row.created_at, updated_at |-> t]

(***************************************************************************)
(* API layer (backend): the handlers of the three resources                 *)
(***************************************************************************)
Table(r) ==
    CASE r = "tasks"      -> tasksTable
      [] r = "context"    -> contextTable
      [] r = "categories" -> categoriesTable

\* the table of resource r becomes v, the other tables stay
SetTable(r, v) ==
    /\ tasksTable'      = IF r = "tasks" THEN v ELSE tasksTable
    /\ contextTable'    = IF r = "context" THEN v ELSE contextTable
    /\ categoriesTable' = IF r = "categories" THEN v ELSE categoriesTable

\* a store that keeps no count of the uses of a category
CountUse_none(table, name) == table

\* usage_frequency of the category with this name, if there is one, goes up
\* by one
CountUse(table, name) ==
    {IF c.name = name THEN [c EXCEPT !.usage_frequency = @ + 1] ELSE c : c \in table}

\* the row is added to the table of resource r; a new task counts as a use
\* of the category it names
InsertRow(r, row) ==
    /\ tasksTable'      = IF r = "tasks" THEN tasksTable \cup {row} ELSE tasksTable
    /\ contextTable'    = IF r = "context" THEN contextTable \cup {row} ELSE contextTable
    /\ categoriesTable' =
          CASE r = "categories" -> categoriesTable \cup {row}
            [] r = "tasks"      -> CountUse(categoriesTable, row.category)
            [] OTHER            -> categoriesTable

ValidCreate(r, p) ==
    CASE r = "tasks"      -> ValidTaskCreate(p)
      [] r = "context"    -> ValidContextCreate(p)
      [] r = "categories" -> ValidCategoryCreate(categoriesTable, p)

ValidUpdate(r, old, p) ==
    CASE r = "tasks"      -> ValidTaskFields(p)
      [] r = "context"    -> ValidContextFields(p)
      [] r = "categories" -> ValidCategoryFields(categoriesTable \ {old}, p)

NewRow(r, id, p, t) ==
    CASE r = "tasks"      -> NewTaskRow(id, p, t)
      [] r = "context"    -> NewContextRow(id, p, t)
      [] r = "categories" -> NewCategoryRow(id, p, t)

MergePatch(r, row, p, t) ==
    CASE r = "tasks"      -> MergeTaskPatch(row, p, t)
      [] r = "context"    -> MergeContextPatch(row, p)
      [] r = "categories" -> MergeCategoryPatch(row, p, t)

\* the representation of a row in a response
View(r, row, t) == IF r = "tasks" THEN TaskView(row, t) ELSE row

\* list() with no filters
ListRows(r) ==
    IF r = "tasks" THEN ListTasks(tasksTable, now) ELSE RowsInOrder(Table(r))

quiet == toast' = "none"
serverIdle == UNCHANGED <<serverVars, deleted>>

\* the record of an API call made directly
Call(api, id, body, code, data) ==
    [api |-> api, id |-> id, body |-> body, code |-> code, data |-> data,
     afterDelete |-> id \in deleted]

\* Each handler of the API layer takes the request and answers it: over the
\* connection the request came on, or to the caller when called directly.
Respond(m, code, data) ==
    IF page = "none"
    THEN lastCall' = Call(m.api, m.id, m.body, code, data) /\ UNCHANGED msgs
    ELSE Reply(m, Resp(m, code, data)) /\ UNCHANGED lastCall

\* an answer that records how the external model call ended
RespondTagged(m, code, data, outcome) ==
    /\ Reply(m, [Resp(m, code, data) EXCEPT !.ext = outcome])
    /\ UNCHANGED lastCall

\* GET /tasks/, GET /context/, GET /categories/
HandleGetAll(r, m) ==
    /\ Respond(m, OK, ListRows(r))
    /\ serverIdle

\* POST /tasks/, POST /context/, POST /categories/
HandleCreate(r, m) ==
    LET p == m.body[1]
    IN
    IF ValidCreate(r, p)
    THEN LET row == NewRow(r, NewId, p, now) IN
         /\ now < ClockLimit
         /\ InsertRow(r, row)
         /\ nextId' = nextId + 1
         /\ now' = now + 1
         /\ Respond(m, OK, <<View(r, row, now)>>)
         /\ UNCHANGED deleted
    ELSE /\ Respond(m, ValidationError, <<>>)
         /\ serverIdle

\* PUT /tasks/{id}, PUT /context/{id}, PUT /categories/{id}
HandleUpdate(r, m) ==
    LET id == m.id
        p == m.body[1]
    IN
    IF ~HasId(Table(r), id)
    THEN Respond(m, NotFound, <<>>) /\ serverIdle
    ELSE LET old == RowOf(Table(r), id)
             row == MergePatch(r, old, p, now) IN
         IF ~ValidUpdate(r, old, p)
         THEN Respond(m, ValidationError, <<>>) /\ serverIdle
         ELSE /\ now < ClockLimit
              /\ SetTable(r, (Table(r) \ {old}) \cup {row})
              /\ now' = now + 1
              /\ Respond(m, OK, <<View(r, row, now)>>)
              /\ UNCHANGED <<nextId, deleted>>

\* DELETE /tasks/{id}, DELETE /context/{id}, DELETE /categories/{id}
HandleDelete(r, m) ==
    LET id == m.id
    IN
    IF ~HasId(Table(r), id)
    THEN Respond(m, NotFound, <<>>) /\ serverIdle
    ELSE /\ now < ClockLimit
         /\ SetTable(r, Table(r) \ {RowOf(Table(r), id)})
         /\ now' = now + 1
         /\ deleted' = IF r = "tasks" THEN deleted \cup {id} ELSE deleted
         /\ Respond(m, OK, <<>>)
         /\ UNCHANGED nextId

\* GET /tasks/{id}
HandleGetById(r, m) ==
    /\ IF HasId(Table(r), m.id)
       THEN Respond(m, OK, <<View(r, RowOf(Table(r), m.id), now)>>)
       ELSE Respond(m, NotFound, <<>>)
    /\ serverIdle

\* GET /tasks/statistics/
TasksStatistics(m) ==
    /\ Respond(m, OK, <<Statistics(tasksTable, now)>>)
    /\ serverIdle

\* POST /context/analyze/: call the external model and degrade when it fails
ContextAnalyze(m, modelWorks) ==
    /\ Respond(m, OK, <<Analysis(modelWorks)>>)
    /\ serverIdle

\* a request in flight is answered through the connection it came on
served == quiet /\ UNCHANGED <<hookVars, formVars, pageVars>>

ServeGetAll ==
    \E r \in Resources : \E m \in Requests(Route("getAll", r)) :
        HandleGetAll(r, m) /\ served

ServeCreate ==
    \E r \in Resources : \E m \in Requests(Route("create", r)) :
        HandleCreate(r, m) /\ served

ServeUpdate ==
    \E r \in Resources : \E m \in Requests(Route("update", r)) :
        HandleUpdate(r, m) /\ served

ServeDelete ==
    \E r \in Resources : \E m \in Requests(Route("delete", r)) :
        HandleDelete(r, m) /\ served

ServeTasksStatistics ==
    \E m \in Requests("GET /tasks/statistics/") : TasksStatistics(m) /\ served

ServeContextAnalyze ==
    \E m \in Requests("POST /context/analyze/") : \E modelWorks \in BOOLEAN :
        ContextAnalyze(m, modelWorks) /\ served

\* the store is unavailable or the connection breaks: the request fails
\* without any effect on the store
RequestFails ==
    \E m \in {r \in InFlight : r.phase = "req"} :
        /\ Reply(m, Resp(m, Unavailable, <<>>))
        /\ UNCHANGED lastCall
        /\ serverIdle /\ served

\* time passes
Tick ==
    /\ now < ClockLimit
    /\ now' = now + 1
    /\ quiet
    /\ UNCHANGED <<tasksTable, contextTable, categoriesTable, nextId, deleted>>
    /\ UNCHANGED <<msgs, hookVars, formVars, pageVars, lastCall>>

(***************************************************************************)
(* hooks: useTasks, useContext, useCategories (three hooks of one shape)    *)
(***************************************************************************)
HookNames == {"useTasks", "useContext", "useCategories", "useTaskStatistics"}
ListHooks == {"useTasks", "useContext", "useCategories"}

\* the API object each hook calls
Resource(h) ==
    CASE h = "useTasks"      -> "tasks"
      [] h = "useContext"    -> "context"
      [] h = "useCategories" -> "categories"

\* the list state of each hook: tasks, entries, categories
ListOf(h) ==
    CASE h = "useTasks"      -> tasks
      [] h = "useContext"    -> entries
      [] h = "useCategories" -> categories

\* setTasks / setEntries / setCategories: the list of hook h becomes v
SetList(h, v) ==
    /\ tasks'      = IF h = "useTasks" THEN v ELSE tasks
    /\ entries'    = IF h = "useContext" THEN v ELSE entries
    /\ categories' = IF h = "useCategories" THEN v ELSE categories

\* the texts of toast.error
ErrorToast(h, op) ==
    (CASE h = "useTasks" ->
            [fetch  |-> "Failed to fetch tasks",
             create |-> "Failed to create task",
             update |-> "Failed to update task",
             delete |-> "Failed to delete task"]
       [] h = "useContext" ->
            [fetch  |-> "Failed to fetch context entries",
             create |-> "Failed to add context entry",
             update |-> "Failed to update context entry",
             delete |-> "Failed to delete context entry"]
       [] h = "useCategories" ->
            [fetch  |-> "Failed to fetch categories",
             create |-> "Failed to create category",
             update |-> "Failed to update category",
             delete |-> "Failed to delete category"])[op]

\* the texts of toast.success
SuccessToast(h, op) ==
    (CASE h = "useTasks" ->
            [create |-> "Task created successfully!",
             update |-> "Task updated successfully!",
             delete |-> "Task deleted successfully!"]
       [] h = "useContext" ->
            [create |-> "Context entry added successfully!",
             update |-> "Context entry updated successfully!",
             delete |-> "Context entry deleted successfully!"]
       [] h = "useCategories" ->
            [create |-> "Category created successfully!",
             update |-> "Category updated successfully!",
             delete |-> "Category deleted successfully!"])[op]

\* the hooks a mounted component uses.  The tasks page and the Dashboard
\* also read the category names from useCategories, whose state is separate
\* from the task list; useCategories is exercised by a component of its own.
HooksOf(p) ==
    CASE p \in {"tasks", "tasks+form", "hook"} -> {"useTasks"}
      [] p = "dashboard"  -> {"useTasks", "useTaskStatistics"}
      [] p = "context"    -> {"useContext"}
      [] p = "categories" -> {"useCategories"}
      [] OTHER            -> {}

MountedLists == HooksOf(page) \cap ListHooks

formIdle == UNCHANGED <<formVars, pageVars, lastCall, deleted, serverVars>>

\* a task as the form submits it
SeedTask ==
    [title |-> <<"A", "b">>, description |-> <<"b">>, category |-> "Work",
     priority_score |-> 8, deadline |-> Some(1), status |-> "in_progress"]

\* what the callers of createTask / createEntry / createCategory pass
CreateInputs(h) ==
    CASE h = "useTasks" ->
            {SeedTask, [title |-> <<"a">>, priority_score |-> 11]}
      [] h = "useContext" ->
            {[content |-> "meeting at 3", source_type |-> "email"],
             [content |-> "", source_type |-> "notes"]}
      [] h = "useCategories" ->
            {[name |-> "Work"], [name |-> ""]}

\* what the callers of updateTask / updateEntry / updateCategory pass
UpdateInputs(h) ==
    CASE h = "useTasks" ->
            {[title |-> <<"b">>, description |-> <<>>, category |-> "Home",
              priority_score |-> 3, deadline |-> Null, status |-> "cancelled"]}
      [] h = "useContext"    -> {[source_type |-> "calendar"]}
      [] h = "useCategories" -> {[description |-> "office"]}

\* fetchTasks / fetchEntries / fetchCategories up to the await (the call of
\* the mount effect is in Init)
fetchList ==
    \E h \in MountedLists :
        /\ Send(api_getAll(Resource(h)))
        /\ loading' = [loading EXCEPT ![h] = TRUE]
        /\ quiet /\ formIdle
        /\ UNCHANGED <<tasks, entries, categories, error, statistics>>

\* fetch: the request succeeded
fetchListOk ==
    \E h \in ListHooks : \E m \in Fulfilled(Route("getAll", Resource(h))) :
        /\ Settle(m)
        /\ SetList(h, m.data)
        /\ error' = [error EXCEPT ![h] = Null]
        /\ loading' = [loading EXCEPT ![h] = FALSE]
        /\ quiet /\ formIdle
        /\ UNCHANGED statistics

\* fetch: the request failed
fetchListFail ==
    \E h \in ListHooks : \E m \in Rejected(Route("getAll", Resource(h))) :
        /\ Settle(m)
        /\ error' = [error EXCEPT ![h] =
                        Some(IF ErrMessage(m) # "" THEN ErrMessage(m)
                             ELSE ErrorToast(h, "fetch"))]
        /\ toast' = ErrorToast(h, "fetch")
        /\ loading' = [loading EXCEPT ![h] = FALSE]
        /\ formIdle
        /\ UNCHANGED <<tasks, entries, categories, statistics>>

\* createTask / createEntry / createCategory up to the await, as called by
\* handleCreateTask and ContextPage.handleSubmit
createItem ==
    \E h \in MountedLists : \E x \in CreateInputs(h) :
        /\ Send(api_create(Resource(h), x))
        /\ quiet /\ formIdle
        /\ UNCHANGED hookVars

\* create: the request succeeded
createItemOk ==
    \E h \in ListHooks : \E m \in Fulfilled(Route("create", Resource(h))) :
        /\ Settle(m)
        /\ SetList(h, Prepend(m.data[1], ListOf(h)))
        /\ toast' = SuccessToast(h, "create")
        /\ formIdle
        /\ UNCHANGED <<loading, error, statistics>>

\* a catch block that takes the first item off the list again
createItemFail_rollback ==
    \E h \in ListHooks : \E m \in Rejected(Route("create", Resource(h))) :
        /\ Settle(m)
        /\ SetList(h, IF ListOf(h) = <<>> THEN <<>> ELSE Tail(ListOf(h)))
        /\ toast' = ErrorToast(h, "create")
        /\ formIdle
        /\ UNCHANGED <<loading, error, statistics>>

\* create: the request failed
createItemFail ==
    \E h \in ListHooks : \E m \in Rejected(Route("create", Resource(h))) :
        /\ Settle(m)
        /\ toast' = ErrorToast(h, "create")
        /\ formIdle
        /\ UNCHANGED hookVars

\* the call updateTask / updateEntry / updateCategory makes
updateCall(h, id, updates) ==
    /\ Send(api_update(Resource(h), id, updates))
    /\ quiet /\ formIdle
    /\ UNCHANGED hookVars

\* updateTask / updateEntry / updateCategory up to the await, as called by
\* handleUpdateTask for an item of the list
updateItem ==
    \E h \in MountedLists : \E i \in 1..Len(ListOf(h)) : \E x \in UpdateInputs(h) :
        updateCall(h, ListOf(h)[i].id, x)

\* update: the request succeeded
updateItemOk ==
    \E h \in ListHooks : \E m \in Fulfilled(Route("update", Resource(h))) :
        /\ Settle(m)
        /\ SetList(h, ReplaceById(ListOf(h), m.id, m.data[1]))
        /\ toast' = SuccessToast(h, "update")
        /\ formIdle
        /\ UNCHANGED <<loading, error, statistics>>

\* update: the request failed
updateItemFail ==
    \E h \in ListHooks : \E m \in Rejected(Route("update", Resource(h))) :
        /\ Settle(m)
        /\ toast' = ErrorToast(h, "update")
        /\ formIdle
        /\ UNCHANGED hookVars

\* deleteTask / deleteEntry / deleteCategory up to the await, as called by
\* handleDeleteTask and ContextPage.handleDelete once confirmed
deleteItem ==
    \E h \in MountedLists : \E i \in 1..Len(ListOf(h)) :
        /\ Send(api_delete(Resource(h), ListOf(h)[i].id))
        /\ quiet /\ formIdle
        /\ UNCHANGED hookVars

\* delete: the request succeeded
deleteItemOk ==
    \E h \in ListHooks : \E m \in Fulfilled(Route("delete", Resource(h))) :
        /\ Settle(m)
        /\ SetList(h, RemoveById(ListOf(h), m.id))
        /\ toast' = SuccessToast(h, "delete")
        /\ formIdle
        /\ UNCHANGED <<loading, error, statistics>>

\* delete: the request failed
deleteItemFail ==
    \E h \in ListHooks : \E m \in Rejected(Route("delete", Resource(h))) :
        /\ Settle(m)
        /\ toast' = ErrorToast(h, "delete")
        /\ formIdle
        /\ UNCHANGED hookVars

(***************************************************************************)
(* TaskCard and the pages' handleStatusChange                               *)
(***************************************************************************)
\* TaskCard.handleStatusToggle: the status the check-mark asks for
ToggledStatus(task) == IF task.status = "completed" THEN "pending" ELSE "completed"

\* TaskCard actions menu: 'Mark Pending' / 'Start Task'
MenuStatus(task) == IF task.status = "in_progress" THEN "pending" ELSE "in_progress"

\* a payload that also carries the form's default priority
StatusPayload_withDefaults(status) ==
    [status |-> status, priority_score |-> DefaultPriority]

\* the payload of handleStatusChange
StatusPayload(status) == [status |-> status]

\* handleStatusChange(id, status), called by a TaskCard of the list
handleStatusChange ==
    /\ "useTasks" \in MountedLists
    /\ \E i \in 1..Len(tasks) :
          \E status \in {ToggledStatus(tasks[i]), MenuStatus(tasks[i])} :
              updateCall("useTasks", tasks[i].id, StatusPayload(status))

(***************************************************************************)
(* hooks: useTaskStatistics                                                 *)
(***************************************************************************)
\* fetchStatistics is called by the mount effect only: see Init

fetchStatisticsOk ==
    \E m \in Fulfilled("GET /tasks/statistics/") :
        /\ Settle(m)
        /\ statistics' = Some(m.data[1])
        /\ loading' = [loading EXCEPT !["useTaskStatistics"] = FALSE]
        /\ quiet /\ formIdle
        /\ UNCHANGED <<tasks, entries, categories, error>>

\* the catch block only writes to the console
fetchStatisticsFail ==
    \E m \in Rejected("GET /tasks/statistics/") :
        /\ Settle(m)
        /\ loading' = [loading EXCEPT !["useTaskStatistics"] = FALSE]
        /\ quiet /\ formIdle
        /\ UNCHANGED <<tasks, entries, categories, error, statistics>>

(***************************************************************************)
(* hooks: useContext.analyzeContent                                         *)
(***************************************************************************)
\* analyzeContent up to the await
analyzeContent ==
    /\ "useContext" \in MountedLists
    /\ Send(contextApi_analyze([content |-> "meeting at 3", source_type |-> "email"]))
    /\ quiet /\ formIdle
    /\ UNCHANGED hookVars

analyzeContentOk ==
    \E m \in Fulfilled("POST /context/analyze/") :
        /\ Settle(m)
        /\ quiet /\ formIdle
        /\ UNCHANGED hookVars

analyzeContentFail ==
    \E m \in Rejected("POST /context/analyze/") :
        /\ Settle(m)
        /\ toast' = "Failed to analyze content"
        /\ formIdle
        /\ UNCHANGED hookVars

(***************************************************************************)
(* Specification: hooks and API                                             *)
(***************************************************************************)
DefaultFormData ==
    [title |-> <<>>, description |-> <<>>, category |-> "",
     priority_score |-> DefaultPriority, deadline |-> Null, status |-> "pending"]

NoFilters == [status |-> "", category |-> "", priority |-> "", overdue |-> FALSE]

Pages == {"tasks", "dashboard", "context", "categories"}

\* the requests the mount effects of a page's hooks have sent
MountFetches(p) ==
    SetToBag({api_getAll(Resource(h)) : h \in HooksOf(p) \cap ListHooks}
             \cup (IF "useTaskStatistics" \in HooksOf(p)
                   THEN {tasksApi_getStatistics} ELSE {}))

NoCall == [api |-> "", id |-> 0, body |-> <<>>, code |-> "", data |-> <<>>,
           afterDelete |-> FALSE]

\* what the store may hold when a page is opened
StoredBefore(p) ==
    CASE p \in {"tasks", "dashboard"} ->
            [tasks |-> {NewTaskRow(1, SeedTask, 0)}, context |-> {}, categories |-> {}]
      [] p = "context" ->
            [tasks |-> {}, categories |-> {},
             context |-> {NewContextRow(1, [content |-> "call at 9",
                                            source_type |-> "notes"], 0)}]
      [] p = "categories" ->
            [tasks |-> {}, context |-> {},
             categories |-> {NewCategoryRow(1, [name |-> "Home"], 0)}]

Init ==
    /\ page \in Pages
    /\ \/ tasksTable = {} /\ contextTable = {} /\ categoriesTable = {} /\ nextId = 1
       \/ /\ tasksTable = StoredBefore(page).tasks
          /\ contextTable = StoredBefore(page).context
          /\ categoriesTable = StoredBefore(page).categories
          /\ nextId = 2
    /\ now = 1
    /\ msgs = MountFetches(page)
    /\ tasks = <<>> /\ entries = <<>> /\ categories = <<>>
    /\ loading = [h \in HookNames |-> TRUE]
    /\ error = [h \in ListHooks |-> Null]
    /\ statistics = Null
    /\ toast = "none"
    /\ lastCall = NoCall
    /\ deleted = {}
    /\ formData = DefaultFormData
    /\ aiSuggestions = Null
    /\ loadingAI = FALSE
    /\ showAISuggestions = FALSE
    /\ formTasks = <<>>
    /\ isSubmitting = FALSE
    /\ showTaskForm = FALSE /\ selectedTask = Null
    /\ formSession = 0
    /\ filters = NoFilters
    /\ searchQuery = <<>>
    /\ sortBy = "created_at"

Next ==
    \/ fetchList \/ fetchListOk \/ fetchListFail
    \/ createItem \/ createItemOk \/ createItemFail
    \/ updateItem \/ handleStatusChange \/ updateItemOk \/ updateItemFail
    \/ deleteItem \/ deleteItemOk \/ deleteItemFail
    \/ fetchStatisticsOk \/ fetchStatisticsFail
    \/ analyzeContent \/ analyzeContentOk \/ analyzeContentFail
    \/ ServeGetAll \/ ServeCreate \/ ServeUpdate \/ ServeDelete
    \/ ServeTasksStatistics \/ ServeContextAnalyze
    \/ RequestFails

Spec == Init /\ [][Next]_vars

(***************************************************************************)
(* Specification: the API layer called directly                             *)
(* Any HTTP client (README: curl, /docs) may call the API; each call is an  *)
(* independent request/response cycle, taken here as one step.              *)
(***************************************************************************)
called == quiet /\ UNCHANGED <<hookVars, formVars, pageVars>>

TaskCreateFields ==
    {"title", "description", "category", "priority_score", "deadline", "status"}

\* the stored fields of a task
TaskRowFields == TaskCreateFields \cup {"id", "created_at", "updated_at"}

Restrict(p, S) == [f \in S |-> p[f]]

FullPatch ==
    [title |-> <<"b">>, description |-> <<>>, category |-> "Home",
     priority_score |-> 3, deadline |-> Null, status |-> "cancelled"]

ApiCreateInputs ==
    { [title |-> <<"a">>],
      [title |-> <<"a">>, priority_score |-> 11],
      [title |-> <<"a">>, priority_score |-> 0],
      [title |-> <<"a">>, status |-> "archived"],
      [title |-> <<>>],
      [description |-> <<"b">>] }

ApiUpdateInputs ==
    {Restrict(FullPatch, S) : S \in SUBSET TaskCreateFields}
        \cup { [priority_score |-> 11], [priority_score |-> 0],
               [status |-> "archived"], [title |-> <<>>] }

ApiCreateTask ==
    \E p \in ApiCreateInputs :
        /\ HandleCreate("tasks", api_create("tasks", p))
        /\ called

\* an update of a stored task, with every payload
ApiUpdateTask ==
    \E r \in tasksTable : \E p \in ApiUpdateInputs :
        /\ HandleUpdate("tasks", api_update("tasks", r.id, p))
        /\ called

\* an update of an id the store does not hold
ApiUpdateMissing ==
    \E id \in IdSpace :
        /\ ~HasId(tasksTable, id)
        /\ HandleUpdate("tasks", api_update("tasks", id, FullPatch))
        /\ called

\* the update a TaskCard's status controls cause through handleStatusChange
ApiStatusChange ==
    \E r \in tasksTable : \E status \in {ToggledStatus(r), MenuStatus(r)} :
        /\ HandleUpdate("tasks", api_update("tasks", r.id, StatusPayload(status)))
        /\ called

ApiDeleteTask ==
    \E id \in IdSpace :
        /\ HandleDelete("tasks", api_delete("tasks", id))
        /\ called

\* tasksApi.getById
ApiGetTask ==
    \E id \in IdSpace :
        /\ HandleGetById("tasks", api_getById("tasks", id))
        /\ called

ApiListTasks ==
    /\ HandleGetAll("tasks", api_getAll("tasks"))
    /\ called

ApiStatistics ==
    /\ TasksStatistics(tasksApi_getStatistics)
    /\ called

InitApi ==
    /\ \/ tasksTable = {} /\ nextId = 1
       \/ tasksTable = {NewTaskRow(1, SeedTask, 0)} /\ nextId = 2
    /\ contextTable = {} /\ categoriesTable = {}
    /\ now = 1
    /\ msgs = EmptyBag
    /\ page = "none"
    /\ tasks = <<>> /\ entries = <<>> /\ categories = <<>>
    /\ loading = [h \in HookNames |-> TRUE]
    /\ error = [h \in ListHooks |-> Null]
    /\ statistics = Null
    /\ toast = "none"
    /\ lastCall = NoCall
    /\ deleted = {}
    /\ formData = DefaultFormData
    /\ aiSuggestions = Null
    /\ loadingAI = FALSE
    /\ showAISuggestions = FALSE
    /\ formTasks = <<>>
    /\ isSubmitting = FALSE
    /\ showTaskForm = FALSE /\ selectedTask = Null
    /\ formSession = 0
    /\ filters = NoFilters
    /\ searchQuery = <<>>
    /\ sortBy = "created_at"

NextApi ==
    \/ ApiCreateTask \/ ApiUpdateTask \/ ApiUpdateMissing \/ ApiStatusChange \/ ApiDeleteTask
    \/ ApiGetTask \/ ApiListTasks \/ ApiStatistics
    \/ Tick

SpecApi == InitApi /\ [][NextApi]_vars

(***************************************************************************)
(* Specification: tasks and categories through the API                      *)
(***************************************************************************)
CategoryNames == {"Work", "Home"}

\* a task is created that names a category, stored or not
ApiCreateTaskIn ==
    \E c \in CategoryNames :
        /\ HandleCreate("tasks", api_create("tasks", [title |-> <<"a">>, category |-> c]))
        /\ called

\* a stored task is moved to another category, or only renamed
ApiMoveTask ==
    \E r \in tasksTable : \E p \in {[category |-> "Home"], [title |-> <<"b">>]} :
        /\ HandleUpdate("tasks", api_update("tasks", r.id, p))
        /\ called

ApiCreateCategory ==
    \E c \in CategoryNames :
        /\ HandleCreate("categories", api_create("categories", [name |-> c]))
        /\ called

ApiUpdateCategory ==
    \E r \in categoriesTable :
        \E p \in {[description |-> "office"], [name |-> "Home"], [is_active |-> FALSE]} :
            /\ HandleUpdate("categories", api_update("categories", r.id, p))
            /\ called

ApiDeleteCategory ==
    \E r \in categoriesTable :
        /\ HandleDelete("categories", api_delete("categories", r.id))
        /\ called

InitCatalog ==
    /\ tasksTable = {} /\ contextTable = {}
    /\ \/ categoriesTable = {} /\ nextId = 1
       \/ categoriesTable = {NewCategoryRow(1, [name |-> "Work"], 0)} /\ nextId = 2
    /\ now = 1
    /\ msgs = EmptyBag
    /\ page = "none"
    /\ tasks = <<>> /\ entries = <<>> /\ categories = <<>>
    /\ loading = [h \in HookNames |-> TRUE]
    /\ error = [h \in ListHooks |-> Null]
    /\ statistics = Null
    /\ toast = "none"
    /\ lastCall = NoCall
    /\ deleted = {}
    /\ formData = DefaultFormData
    /\ aiSuggestions = Null
    /\ loadingAI = FALSE
    /\ showAISuggestions = FALSE
    /\ formTasks = <<>>
    /\ isSubmitting = FALSE
    /\ showTaskForm = FALSE /\ selectedTask = Null
    /\ formSession = 0
    /\ filters = NoFilters
    /\ searchQuery = <<>>
    /\ sortBy = "created_at"

NextCatalog ==
    \/ ApiCreateTaskIn \/ ApiMoveTask \/ ApiDeleteTask
    \/ ApiCreateCategory \/ ApiUpdateCategory \/ ApiDeleteCategory

SpecCatalog == InitCatalog /\ [][NextCatalog]_vars

(***************************************************************************)
(* Suggestion adapter (backend): POST /tasks/ai-suggestions/                *)
(***************************************************************************)
\* what the external model may answer for the priority
RawPriorities == {0, 12}

\* priority_score coerced into [1,10]
Clamp(n) ==
    IF n < MinPriority THEN MinPriority
    ELSE IF n > MaxPriority THEN MaxPriority
    ELSE n

\* the suggestion parsed from the model's answer
ParsedSuggestion(req, raw, t) ==
    [priority_score       |-> Clamp(raw),
     suggested_deadline   |-> Some(t + 1),
     enhanced_description |-> <<"e">>,
     suggested_category   |-> "Work",
     ai_suggested_tags    |-> <<"ai">>]

\* the deterministic local fallback
FallbackSuggestion(req) ==
    [priority_score       |-> DefaultPriority,
     suggested_deadline   |-> Null,
     enhanced_description |-> req.description,
     suggested_category   |-> req.category,
     ai_suggested_tags    |-> <<>>]

ExternalOutcomes == {"answered", "failed", "timed out"}

TasksAISuggestions(m, outcome, raw) ==
    LET req == m.body[1]
    IN
    /\ IF req.title = <<>>
       THEN RespondTagged(m, ValidationError, <<>>, outcome)
       ELSE IF outcome = "answered"
       THEN RespondTagged(m, OK, <<ParsedSuggestion(req, raw, now)>>, outcome)
       ELSE RespondTagged(m, OK, <<FallbackSuggestion(req)>>, outcome)
    /\ serverIdle

ServeTasksAISuggestions ==
    \E m \in Requests("POST /tasks/ai-suggestions/") :
        \E outcome \in ExternalOutcomes :
            \E raw \in (IF outcome = "answered" THEN RawPriorities ELSE {0}) :
                /\ TasksAISuggestions(m, outcome, raw)
                /\ served

(***************************************************************************)
(* components/tasks/TaskForm.tsx                                            *)
(***************************************************************************)
formStep ==
    UNCHANGED <<hookVars, pageVars, lastCall, deleted, serverVars, sessionVars, formTasks>>

\* parseInt of a decimal string
ParseInt(str) == CHOOSE n \in 0..99 : NumberToString(n) = str

\* priorityOptions: the values "1" .. "10"
priorityOptions == {NumberToString(i + 1) : i \in 0..9}

TitleInputs == {<<>>, <<" ">>, <<" ", "a", " ">>}
DescriptionInputs == {<<"b">>}
PriorityInputs == {"9"}

\* the modal is rendered and its controls are enabled
formInUse == showTaskForm /\ ~isSubmitting

\* handleInputChange(field, value)
handleInputChange(field, value) ==
    /\ formInUse
    /\ formData' = [formData EXCEPT ![field] = value]
    /\ quiet
    /\ UNCHANGED <<msgs, aiSuggestions, loadingAI, showAISuggestions>>
    /\ formStep

changeTitle == \E v \in TitleInputs : handleInputChange("title", v)

changeDescription == \E v \in DescriptionInputs : handleInputChange("description", v)

changePriority ==
    \E v \in PriorityInputs \cap priorityOptions :
        handleInputChange("priority_score", ParseInt(v))

\* a guard that tests the title without trimming it
TitlePresent_noTrim(title) == title # <<>>

\* formData.title.trim() is truthy
TitlePresent(title) == Trim(title) # <<>>

\* useTasks.getAISuggestions: the request with the workload hint
AISuggestionsRequest(data) ==
    tasksApi_getAISuggestions(
        [title |-> data.title, description |-> data.description,
         category |-> data.category,
         current_workload |-> CountStatus(formTasks, "pending")])

\* handleGetAISuggestions up to the await
handleGetAISuggestions ==
    /\ formInUse
    /\ TitlePresent(formData.title)
    /\ loadingAI' = TRUE
    /\ Send([AISuggestionsRequest(
                [title |-> formData.title, description |-> formData.description,
                 category |-> formData.category])
             EXCEPT !.session = formSession])
    /\ quiet
    /\ UNCHANGED <<formData, aiSuggestions, showAISuggestions>>
    /\ formStep

\* a continuation that throws the answer away
handleGetAISuggestionsOk_discard ==
    \E m \in Fulfilled("POST /tasks/ai-suggestions/") :
        /\ Settle(m)
        /\ toast' = "Failed to get AI suggestions"
        /\ loadingAI' = FALSE
        /\ UNCHANGED <<formData, aiSuggestions, showAISuggestions>>
        /\ formStep

\* handleGetAISuggestions: the request succeeded
handleGetAISuggestionsOk ==
    \E m \in Fulfilled("POST /tasks/ai-suggestions/") :
        /\ Settle(m)
        /\ aiSuggestions' = Some(m.data[1])
        /\ showAISuggestions' = TRUE
        /\ loadingAI' = FALSE
        /\ quiet
        /\ UNCHANGED formData
        /\ formStep

\* a catch block without the finally that clears the flag
handleGetAISuggestionsFail_noFinally ==
    \E m \in Rejected("POST /tasks/ai-suggestions/") :
        /\ Settle(m)
        /\ toast' = "Failed to get AI suggestions"
        /\ UNCHANGED <<formData, aiSuggestions, loadingAI, showAISuggestions>>
        /\ formStep

\* handleGetAISuggestions: the request failed (the hook toasts and rethrows,
\* the form logs)
handleGetAISuggestionsFail ==
    \E m \in Rejected("POST /tasks/ai-suggestions/") :
        /\ Settle(m)
        /\ toast' = "Failed to get AI suggestions"
        /\ loadingAI' = FALSE
        /\ UNCHANGED <<formData, aiSuggestions, showAISuggestions>>
        /\ formStep

\* an apply that is off by one on the priority
AppliedSuggestions_offByOne(prev, suggestion) ==
    [prev EXCEPT !.priority_score = suggestion.priority_score + 1,
                 !.deadline = suggestion.suggested_deadline,
                 !.description = suggestion.enhanced_description,
                 !.category = suggestion.suggested_category]

\* the form data after applyAISuggestions
AppliedSuggestions(prev, suggestion) ==
    [prev EXCEPT !.priority_score = suggestion.priority_score,
                 !.deadline = suggestion.suggested_deadline,
                 !.description = suggestion.enhanced_description,
                 !.category = suggestion.suggested_category]

\* applyAISuggestions
applyAISuggestions ==
    /\ formInUse
    /\ showAISuggestions
    /\ aiSuggestions # Null
    /\ formData' = AppliedSuggestions(formData, aiSuggestions[1])
    /\ showAISuggestions' = FALSE
    /\ quiet
    /\ UNCHANGED <<msgs, aiSuggestions, loadingAI>>
    /\ formStep

(***************************************************************************)
(* The task form as the tasks page and the Dashboard use it                 *)
(***************************************************************************)
\* sessions of the task form that are followed
MaxSessions == 2

\* a reset that leaves the data alone when there is no task to edit
ResetFormData_keep(task) ==
    IF task # Null
    THEN [title |-> task[1].title, description |-> task[1].description,
          category |-> task[1].category,
          priority_score |-> task[1].priority_score,
          deadline |-> task[1].deadline, status |-> task[1].status]
    ELSE formData

\* the form data the reset effect sets for the task being edited, or for none
ResetFormData(task) ==
    IF task # Null
    THEN [title |-> task[1].title, description |-> task[1].description,
          category |-> task[1].category,
          priority_score |-> task[1].priority_score,
          deadline |-> task[1].deadline, status |-> task[1].status]
    ELSE DefaultFormData

\* the reset effect of TaskForm, run when task or isOpen has changed
resetEffect ==
    /\ formData' = ResetFormData(selectedTask')
    /\ aiSuggestions' = Null
    /\ showAISuggestions' = FALSE

sessionStep ==
    UNCHANGED <<serverVars, hookVars, lastCall, deleted, pageVars, loadingAI, formTasks>>

\* the 'New Task' button
openNewTask ==
    /\ ~showTaskForm /\ ~isSubmitting
    /\ formSession < MaxSessions
    /\ selectedTask' = Null
    /\ showTaskForm' = TRUE
    /\ formSession' = formSession + 1
    /\ resetEffect
    /\ quiet
    /\ UNCHANGED <<msgs, isSubmitting>>
    /\ sessionStep

\* handleEditTask(task), called by a TaskCard of the list
handleEditTask ==
    /\ ~showTaskForm /\ ~isSubmitting
    /\ formSession < MaxSessions
    /\ \E i \in 1..Len(tasks) : selectedTask' = Some(tasks[i])
    /\ showTaskForm' = TRUE
    /\ formSession' = formSession + 1
    /\ resetEffect
    /\ quiet
    /\ UNCHANGED <<msgs, isSubmitting>>
    /\ sessionStep

\* the onClose the page gives the form
onClose ==
    /\ showTaskForm' = FALSE
    /\ selectedTask' = Null

\* TaskForm.handleClose: the Cancel button, and the Modal's close button,
\* backdrop and Escape key
handleClose ==
    /\ showTaskForm
    /\ ~isSubmitting
    /\ onClose
    /\ resetEffect
    /\ quiet
    /\ UNCHANGED <<msgs, isSubmitting, formSession>>
    /\ sessionStep

\* TaskForm.handleSubmit up to the await: onSubmit is handleUpdateTask when a
\* task is selected and handleCreateTask otherwise; neither returns the
\* promise of the request it starts
handleSubmit ==
    /\ formInUse
    /\ formData.title # <<>>
    /\ isSubmitting' = TRUE
    /\ IF selectedTask # Null
       THEN /\ Send([api_update("tasks", selectedTask[1].id, formData)
                        EXCEPT !.session = formSession])
            /\ selectedTask' = Null
            /\ resetEffect
       ELSE /\ Send([api_create("tasks", formData) EXCEPT !.session = formSession])
            /\ UNCHANGED <<selectedTask, formData, aiSuggestions, showAISuggestions>>
    /\ quiet
    /\ UNCHANGED <<showTaskForm, formSession>>
    /\ sessionStep

\* TaskForm.handleSubmit after the await: the awaited value is not a promise,
\* so this runs as a microtask before any other event or response is handled
handleSubmitResume ==
    /\ isSubmitting
    /\ onClose
    /\ resetEffect
    /\ isSubmitting' = FALSE
    /\ quiet
    /\ UNCHANGED <<msgs, formSession>>
    /\ sessionStep

(***************************************************************************)
(* Specification: the task form and the suggestion endpoint                 *)
(***************************************************************************)
\* the list both useTasks instances, the page's and the form's own, have
\* fetched
FormTasks ==
    << TaskView(NewTaskRow(1, SeedTask, 0), 1),
       TaskView(NewTaskRow(2, [title |-> <<"a">>], 0), 1) >>

InitForm ==
    /\ tasksTable = {} /\ contextTable = {} /\ categoriesTable = {}
    /\ nextId = 1
    /\ now = 1
    /\ msgs = EmptyBag
    /\ page = "form"
    /\ tasks = FormTasks /\ entries = <<>> /\ categories = <<>>
    /\ loading = [h \in HookNames |-> FALSE]
    /\ error = [h \in ListHooks |-> Null]
    /\ statistics = Null
    /\ toast = "none"
    /\ lastCall = NoCall
    /\ deleted = {}
    /\ formData = DefaultFormData
    /\ aiSuggestions = Null
    /\ loadingAI = FALSE
    /\ showAISuggestions = FALSE
    /\ formTasks = FormTasks
    /\ isSubmitting = FALSE
    /\ showTaskForm = TRUE /\ selectedTask = Null
    /\ formSession = 1
    /\ filters = NoFilters
    /\ searchQuery = <<>>
    /\ sortBy = "created_at"

NextForm ==
    \/ changeTitle \/ changeDescription \/ changePriority
    \/ handleGetAISuggestions \/ handleGetAISuggestionsOk \/ handleGetAISuggestionsFail
    \/ applyAISuggestions
    \/ ServeTasksAISuggestions
    \/ RequestFails

SpecForm == InitForm /\ [][NextForm]_vars

\* The life of a suggestion request: the part of the form that sends it and
\* receives its answer.  The endpoint answers every request it has received
\* (its call of the external model has a timeout), and a settled promise runs
\* its continuation.
NextFormLive ==
    \/ changeTitle
    \/ handleGetAISuggestions \/ handleGetAISuggestionsOk \/ handleGetAISuggestionsFail
    \/ ServeTasksAISuggestions
    \/ RequestFails

SpecFormLive ==
    /\ InitForm /\ [][NextFormLive]_vars
    /\ WF_vars(ServeTasksAISuggestions)
    /\ WF_vars(handleGetAISuggestionsOk)
    /\ WF_vars(handleGetAISuggestionsFail)

(***************************************************************************)
(* Specification: suggestions across sessions of the task form              *)
(***************************************************************************)
\* the page has fetched its tasks and the form has not been opened yet
InitSuggest ==
    /\ tasksTable = {} /\ contextTable = {} /\ categoriesTable = {}
    /\ nextId = 1
    /\ now = 1
    /\ msgs = EmptyBag
    /\ page = "form"
    /\ tasks = FormTasks /\ entries = <<>> /\ categories = <<>>
    /\ loading = [h \in HookNames |-> FALSE]
    /\ error = [h \in ListHooks |-> Null]
    /\ statistics = Null
    /\ toast = "none"
    /\ lastCall = NoCall
    /\ deleted = {}
    /\ formData = DefaultFormData
    /\ aiSuggestions = Null
    /\ loadingAI = FALSE
    /\ showAISuggestions = FALSE
    /\ formTasks = FormTasks
    /\ isSubmitting = FALSE
    /\ showTaskForm = FALSE /\ selectedTask = Null
    /\ formSession = 0
    /\ filters = NoFilters
    /\ searchQuery = <<>>
    /\ sortBy = "created_at"

NextSuggest ==
    \/ openNewTask \/ handleEditTask \/ handleClose
    \/ changeTitle
    \/ handleGetAISuggestions \/ handleGetAISuggestionsOk \/ handleGetAISuggestionsFail
    \/ applyAISuggestions
    \/ ServeTasksAISuggestions
    \/ RequestFails

SpecSuggest == InitSuggest /\ [][NextSuggest]_vars

(***************************************************************************)
(* Specification: useTasks with calls that overlap                          *)
(***************************************************************************)
\* a component that mounts useTasks and calls what the hook returns without
\* waiting for the call before
InitHook ==
    /\ \/ tasksTable = {} /\ nextId = 1
       \/ tasksTable = {NewTaskRow(1, SeedTask, 0)} /\ nextId = 2
    /\ contextTable = {} /\ categoriesTable = {}
    /\ now = 1
    /\ page = "hook"
    /\ msgs = MountFetches(page)
    /\ tasks = <<>> /\ entries = <<>> /\ categories = <<>>
    /\ loading = [h \in HookNames |-> TRUE]
    /\ error = [h \in ListHooks |-> Null]
    /\ statistics = Null
    /\ toast = "none"
    /\ lastCall = NoCall
    /\ deleted = {}
    /\ formData = DefaultFormData
    /\ aiSuggestions = Null
    /\ loadingAI = FALSE
    /\ showAISuggestions = FALSE
    /\ formTasks = <<>>
    /\ isSubmitting = FALSE
    /\ showTaskForm = FALSE /\ selectedTask = Null
    /\ formSession = 0
    /\ filters = NoFilters
    /\ searchQuery = <<>>
    /\ sortBy = "created_at"

NextHook ==
    \/ fetchList \/ fetchListOk \/ fetchListFail
    \/ createItem \/ createItemOk \/ createItemFail
    \/ updateItem \/ updateItemOk \/ updateItemFail
    \/ deleteItem \/ deleteItemOk \/ deleteItemFail
    \/ ServeGetAll \/ ServeCreate \/ ServeUpdate \/ ServeDelete
    \/ RequestFails

SpecHook == InitHook /\ [][NextHook]_vars

\* the mutations of the hook alone: the mount fetch is the only fetch and
\* every request reaches the server
NextMutate ==
    \/ fetchListOk
    \/ createItem \/ createItemOk \/ createItemFail
    \/ updateItem \/ updateItemOk \/ updateItemFail
    \/ deleteItem \/ deleteItemOk \/ deleteItemFail
    \/ ServeGetAll \/ ServeCreate \/ ServeUpdate \/ ServeDelete

SpecMutate == InitHook /\ [][NextMutate]_vars

(***************************************************************************)
(* Specification: the tasks page, its list and the form's workload hint     *)
(***************************************************************************)
\* the tasks in the store when the page is opened
WorkloadStore ==
    {NewTaskRow(1, SeedTask, 0), NewTaskRow(2, [title |-> <<"a">>], 0)}

\* TasksPage and the TaskForm it renders have mounted; each of them called
\* useTasks and both mount fetches have been answered from the same store
InitWorkload ==
    /\ tasksTable = WorkloadStore
    /\ contextTable = {} /\ categoriesTable = {}
    /\ nextId = 3
    /\ now = 1
    /\ page = "tasks+form"
    /\ msgs = EmptyBag
    /\ tasks = ListTasks(tasksTable, now) /\ entries = <<>> /\ categories = <<>>
    /\ loading = [h \in HookNames |-> h # "useTasks"]
    /\ error = [h \in ListHooks |-> Null]
    /\ statistics = Null
    /\ toast = "none"
    /\ lastCall = NoCall
    /\ deleted = {}
    /\ formData = DefaultFormData
    /\ aiSuggestions = Null
    /\ loadingAI = FALSE
    /\ showAISuggestions = FALSE
    /\ formTasks = ListTasks(tasksTable, now)
    /\ isSubmitting = FALSE
    /\ showTaskForm = FALSE /\ selectedTask = Null
    /\ formSession = 0
    /\ filters = NoFilters
    /\ searchQuery = <<>>
    /\ sortBy = "created_at"

\* the cards' status changes and deletes and the header's New Task are used
\* while the form is closed
NextWorkload ==
    \/ ~showTaskForm /\ handleStatusChange
    \/ updateItemOk \/ updateItemFail
    \/ ~showTaskForm /\ deleteItem
    \/ deleteItemOk \/ deleteItemFail
    \/ ServeUpdate \/ ServeDelete
    \/ openNewTask \/ handleClose
    \/ changeTitle
    \/ handleGetAISuggestions \/ handleGetAISuggestionsOk
    \/ ServeTasksAISuggestions

SpecWorkload == InitWorkload /\ [][NextWorkload]_vars

(***************************************************************************)
(* Specification: the tasks page with its task form                         *)
(***************************************************************************)
InitSession ==
    /\ \/ tasksTable = {} /\ nextId = 1
       \/ tasksTable = {NewTaskRow(1, SeedTask, 0)} /\ nextId = 2
    /\ contextTable = {} /\ categoriesTable = {}
    /\ now = 1
    /\ page = "tasks+form"
    /\ msgs = MountFetches(page)
    /\ tasks = <<>> /\ entries = <<>> /\ categories = <<>>
    /\ loading = [h \in HookNames |-> TRUE]
    /\ error = [h \in ListHooks |-> Null]
    /\ statistics = Null
    /\ toast = "none"
    /\ lastCall = NoCall
    /\ deleted = {}
    /\ formData = DefaultFormData
    /\ aiSuggestions = Null
    /\ loadingAI = FALSE
    /\ showAISuggestions = FALSE
    /\ formTasks = <<>>
    /\ isSubmitting = FALSE
    /\ showTaskForm = FALSE /\ selectedTask = Null
    /\ formSession = 0
    /\ filters = NoFilters
    /\ searchQuery = <<>>
    /\ sortBy = "created_at"

\* no event handler and no continuation runs while the microtask of
\* handleSubmit is pending
NextSession ==
    \/ ~isSubmitting /\ fetchListOk
    \/ ~isSubmitting /\ fetchListFail
    \/ openNewTask \/ handleEditTask \/ handleClose
    \/ changeTitle \/ changePriority
    \/ handleSubmit \/ handleSubmitResume
    \/ ~isSubmitting /\ createItemOk
    \/ ~isSubmitting /\ createItemFail
    \/ ~isSubmitting /\ updateItemOk
    \/ ~isSubmitting /\ updateItemFail
    \/ ServeGetAll \/ ServeCreate \/ ServeUpdate
    \/ RequestFails

SpecSession == InitSession /\ [][NextSession]_vars

(***************************************************************************)
(* app/tasks/page.tsx and the Dashboard: the filtered list                  *)
(***************************************************************************)
\* collation rank of a letter, case set aside
PrimaryRank(c) ==
    CASE c = " " -> 0
      [] c \in {"a", "A"} -> 1
      [] c \in {"b", "B"} -> 2
      [] OTHER -> 3

IsUpper(c) == c \in {"A", "B"}

RECURSIVE ComparePrimary(_, _)
ComparePrimary(a, b) ==
    IF a = <<>> /\ b = <<>> THEN 0
    ELSE IF a = <<>> THEN -1
    ELSE IF b = <<>> THEN 1
    ELSE IF PrimaryRank(Head(a)) < PrimaryRank(Head(b)) THEN -1
    ELSE IF PrimaryRank(Head(a)) > PrimaryRank(Head(b)) THEN 1
    ELSE ComparePrimary(Tail(a), Tail(b))

RECURSIVE CompareCase(_, _)
CompareCase(a, b) ==
    IF a = <<>> \/ b = <<>> THEN 0
    ELSE IF ~IsUpper(Head(a)) /\ IsUpper(Head(b)) THEN -1
    ELSE IF IsUpper(Head(a)) /\ ~IsUpper(Head(b)) THEN 1
    ELSE CompareCase(Tail(a), Tail(b))

\* String.prototype.localeCompare: letters first, then lower case before upper
LocaleCompare(a, b) ==
    IF ComparePrimary(a, b) # 0 THEN ComparePrimary(a, b) ELSE CompareCase(a, b)

\* localeCompare of two status names
StatusRank(status) ==
    CASE status = "cancelled" -> 1
      [] status = "completed" -> 2
      [] status = "in_progress" -> 3
      [] status = "pending" -> 4

\* a comparator that takes a missing deadline for the earliest one
CompareTasks_nullFirst(a, b, by) ==
    CASE by = "priority" -> b.priority_score - a.priority_score
      [] by = "deadline" ->
            (IF a.deadline = Null THEN 0 ELSE a.deadline[1])
               - (IF b.deadline = Null THEN 0 ELSE b.deadline[1])
      [] by = "title" -> LocaleCompare(a.title, b.title)
      [] by = "status" -> StatusRank(a.status) - StatusRank(b.status)
      [] OTHER -> b.created_at - a.created_at

\* the comparator of filtered.sort
CompareTasks(a, b, by) ==
    CASE by = "priority" -> b.priority_score - a.priority_score
      [] by = "deadline" ->
            IF a.deadline = Null /\ b.deadline = Null THEN 0
            ELSE IF a.deadline = Null THEN 1
            ELSE IF b.deadline = Null THEN -1
            ELSE a.deadline[1] - b.deadline[1]
      [] by = "title" -> LocaleCompare(a.title, b.title)
      [] by = "status" -> StatusRank(a.status) - StatusRank(b.status)
      [] OTHER -> b.created_at - a.created_at

RECURSIVE InsertSorted(_, _, _)
InsertSorted(x, sorted, by) ==
    IF sorted = <<>> THEN <<x>>
    ELSE IF CompareTasks(x, Head(sorted), by) < 0 THEN <<x>> \o sorted
    ELSE <<Head(sorted)>> \o InsertSorted(x, Tail(sorted), by)

RECURSIVE SortTasks(_, _)
\* Array.prototype.sort with the comparator: stable
SortTasks(list, by) ==
    IF list = <<>> THEN <<>>
    ELSE InsertSorted(list[Len(list)], SortTasks(SubSeq(list, 1, Len(list) - 1), by), by)

\* a filter callback that skips the category test
TaskPasses_noCategory(task, query, f) ==
    /\ query # <<>> =>
          \/ Includes(ToLowerCase(task.title), ToLowerCase(query))
          \/ Includes(ToLowerCase(task.description), ToLowerCase(query))
    /\ ~(Truthy(f.status) /\ task.status # f.status)
    /\ ~(Truthy(f.priority) /\ NumberToString(task.priority_score) # f.priority)
    /\ ~(f.overdue /\ ~task.is_overdue)

\* the callback of tasks.filter on the tasks page
TaskPasses(task, query, f) ==
    /\ query # <<>> =>
          \/ Includes(ToLowerCase(task.title), ToLowerCase(query))
          \/ Includes(ToLowerCase(task.description), ToLowerCase(query))
    /\ ~(Truthy(f.status) /\ task.status # f.status)
    /\ ~(Truthy(f.category) /\ task.category # f.category)
    /\ ~(Truthy(f.priority) /\ NumberToString(task.priority_score) # f.priority)
    /\ ~(f.overdue /\ ~task.is_overdue)

\* the callback of tasks.filter on the dashboard
DashboardPasses(task, f) ==
    /\ ~(Truthy(f.status) /\ task.status # f.status)
    /\ ~(Truthy(f.category) /\ task.category # f.category)
    /\ ~(Truthy(f.priority) /\ NumberToString(task.priority_score) # f.priority)

\* TasksPage: filteredTasks
TasksPage_filteredTasks ==
    SortTasks(SelectSeq(tasks, LAMBDA t : TaskPasses(t, searchQuery, filters)), sortBy)

\* Dashboard: filteredTasks
Dashboard_filteredTasks ==
    SelectSeq(tasks, LAMBDA t : DashboardPasses(t, filters))

\* the filtered list of the mounted page
filteredTasks ==
    IF page = "dashboard" THEN Dashboard_filteredTasks ELSE TasksPage_filteredTasks

pageStep ==
    /\ quiet
    /\ UNCHANGED <<serverVars, msgs, hookVars, lastCall, deleted, formVars, page>>

\* the option lists of the selects
TasksPage_statusOptions == {"", "pending", "in_progress", "completed", "cancelled"}
Dashboard_statusOptions == {"", "pending", "in_progress", "completed"}
categoryOptions == {""} \cup {categories[i].name : i \in 1..Len(categories)}
PriorityChoices == {"", "1", "8", "10"}
SearchInputs == {<<>>, <<"a">>, <<"B">>}
sortOptions == {"created_at", "priority", "deadline", "title", "status"}

setStatusFilter ==
    /\ page \in {"tasks", "dashboard"}
    /\ \E v \in (IF page = "tasks" THEN TasksPage_statusOptions
                 ELSE Dashboard_statusOptions) :
          filters' = [filters EXCEPT !.status = v]
    /\ UNCHANGED <<searchQuery, sortBy>>
    /\ pageStep

setCategoryFilter ==
    /\ page \in {"tasks", "dashboard"}
    /\ \E v \in categoryOptions : filters' = [filters EXCEPT !.category = v]
    /\ UNCHANGED <<searchQuery, sortBy>>
    /\ pageStep

setPriorityFilter ==
    /\ page \in {"tasks", "dashboard"}
    /\ \E v \in PriorityChoices \cap ({""} \cup priorityOptions) :
          filters' = [filters EXCEPT !.priority = v]
    /\ UNCHANGED <<searchQuery, sortBy>>
    /\ pageStep

setOverdueFilter ==
    /\ page = "tasks"
    /\ \E v \in BOOLEAN : filters' = [filters EXCEPT !.overdue = v]
    /\ UNCHANGED <<searchQuery, sortBy>>
    /\ pageStep

setSearchQuery ==
    /\ page = "tasks"
    /\ \E v \in SearchInputs : searchQuery' = v
    /\ UNCHANGED <<filters, sortBy>>
    /\ pageStep

setSortBy ==
    /\ page = "tasks"
    /\ \E v \in sortOptions : sortBy' = v
    /\ UNCHANGED <<filters, searchQuery>>
    /\ pageStep

\* the Clear Filters button, rendered while a filter or the search is set
clearFilters ==
    /\ page = "tasks"
    /\ \/ searchQuery # <<>>
       \/ Truthy(filters.status) \/ Truthy(filters.category)
       \/ Truthy(filters.priority) \/ filters.overdue
    /\ searchQuery' = <<>>
    /\ filters' = NoFilters
    /\ UNCHANGED sortBy
    /\ pageStep

(***************************************************************************)
(* Dashboard: Recent Tasks                                                  *)
(***************************************************************************)
\* the number of cards in the section
RecentLimit == 6

\* Array.prototype.slice(0, n)
SliceFirst(list, n) == SubSeq(list, 1, IF Len(list) < n THEN Len(list) ELSE n)

\* Dashboard: recentTasks
recentTasks == SliceFirst(Dashboard_filteredTasks, RecentLimit)

\* one task more than the section shows, the last one created later
RecentStore ==
    {NewTaskRow(i, [title |-> <<"a">>], 0) : i \in 1..RecentLimit}
        \cup {NewTaskRow(RecentLimit + 1, SeedTask, 1)}

Reverse(list) == [i \in 1..Len(list) |-> list[Len(list) + 1 - i]]

\* the Dashboard has fetched its list: in the order of insertion, or newest
\* first
InitRecent ==
    /\ tasksTable = RecentStore
    /\ contextTable = {} /\ categoriesTable = {}
    /\ nextId = RecentLimit + 2
    /\ now = 1
    /\ page = "dashboard"
    /\ msgs = EmptyBag
    /\ tasks \in {ListTasks(tasksTable, now), Reverse(ListTasks(tasksTable, now))}
    /\ entries = <<>> /\ categories = <<>>
    /\ loading = [h \in HookNames |-> h \notin {"useTasks", "useTaskStatistics"}]
    /\ error = [h \in ListHooks |-> Null]
    /\ statistics = Some(Statistics(tasksTable, now))
    /\ toast = "none"
    /\ lastCall = NoCall
    /\ deleted = {}
    /\ formData = DefaultFormData
    /\ aiSuggestions = Null
    /\ loadingAI = FALSE
    /\ showAISuggestions = FALSE
    /\ formTasks = <<>>
    /\ isSubmitting = FALSE
    /\ showTaskForm = FALSE /\ selectedTask = Null
    /\ formSession = 0
    /\ filters = NoFilters
    /\ searchQuery = <<>>
    /\ sortBy = "created_at"

NextRecent ==
    \/ setStatusFilter \/ setPriorityFilter
    \/ createItem \/ createItemOk \/ createItemFail
    \/ ServeCreate

SpecRecent == InitRecent /\ [][NextRecent]_vars

(***************************************************************************)
(* TaskCard: the priority badge                                             *)
(***************************************************************************)
\* TaskCard.getPriorityColor: the variant of the badge
getPriorityColor(priority) ==
    IF priority >= 8 THEN "danger"
    ELSE IF priority >= 6 THEN "warning"
    ELSE IF priority >= 4 THEN "primary"
    ELSE "default"

\* the documented bands of the priority score
PriorityBand(priority) ==
    IF priority <= 3 THEN "low"
    ELSE IF priority <= 6 THEN "medium"
    ELSE IF priority <= 8 THEN "high"
    ELSE "critical"

(***************************************************************************)
(* Specification: the filters over fetched lists                            *)
(***************************************************************************)
\* the tasks a fetch at time 3 can have returned
FetchedTaskPool ==
    { TaskView(NewTaskRow(1, SeedTask, 0), 3),
      TaskView(NewTaskRow(2, [title |-> <<"a">>], 1), 3),
      TaskView(NewTaskRow(3, [title |-> <<"b">>, category |-> "Work",
                              priority_score |-> 8, deadline |-> Some(5)], 2), 3),
      TaskView(NewTaskRow(4, [title |-> <<"a">>, category |-> "Home",
                              priority_score |-> 10, deadline |-> Some(1),
                              status |-> "completed"], 2), 3),
      TaskView(NewTaskRow(5, [title |-> <<"B">>, description |-> <<"a">>,
                              category |-> "Home", priority_score |-> 1,
                              deadline |-> Some(1), status |-> "cancelled"], 2), 3) }

\* the lists of at most MaxListLen different tasks
FetchedLists ==
    UNION { {l \in [1..n -> FetchedTaskPool] :
                \A i, j \in 1..n : i # j => l[i].id # l[j].id} : n \in 0..MaxListLen }

FetchedCategories ==
    << NewCategoryRow(6, [name |-> "Work"], 0), NewCategoryRow(7, [name |-> "Home"], 0) >>

InitFilter ==
    /\ tasksTable = {} /\ contextTable = {} /\ categoriesTable = {}
    /\ nextId = 1
    /\ now = 3
    /\ msgs = EmptyBag
    /\ page \in {"tasks", "dashboard"}
    /\ tasks \in FetchedLists
    /\ entries = <<>>
    /\ categories = FetchedCategories
    /\ loading = [h \in HookNames |-> FALSE]
    /\ error = [h \in ListHooks |-> Null]
    /\ statistics = Null
    /\ toast = "none"
    /\ lastCall = NoCall
    /\ deleted = {}
    /\ formData = DefaultFormData
    /\ aiSuggestions = Null
    /\ loadingAI = FALSE
    /\ showAISuggestions = FALSE
    /\ formTasks = <<>>
    /\ isSubmitting = FALSE
    /\ showTaskForm = FALSE /\ selectedTask = Null
    /\ formSession = 0
    /\ filters = NoFilters
    /\ searchQuery = <<>>
    /\ sortBy = "created_at"

NextFilter ==
    \/ setStatusFilter \/ setCategoryFilter \/ setPriorityFilter
    \/ setOverdueFilter \/ setSearchQuery \/ setSortBy \/ clearFilters

SpecFilter == InitFilter /\ [][NextFilter]_vars

(***************************************************************************)
(* Properties                                                               *)
(***************************************************************************)
\* a failed exchange settles in the client in this step
FailureSettles ==
    \E m \in InFlight :
        /\ m.phase = "resp" /\ m.code # OK
        /\ msgs' = msgs (-) SetToBag({m})

\* the client sends a request in this step
RequestIssued == BagCardinality(msgs') = BagCardinality(msgs) + 1

\* C1: neither sending a request nor the failure of a create, update, delete
\* or list fetch changes the list of any hook: tasks, entries and categories
\* are element for element what they were.
C1_FailureKeepsLists ==
    [][(FailureSettles \/ RequestIssued)
         => <<tasks, entries, categories>>' = <<tasks, entries, categories>>]_vars

\* a create failed while the list already held a task
C1_Witness == toast = "Failed to create task" /\ tasks # <<>>

ErrorToasts ==
    {"Failed to fetch tasks", "Failed to create task", "Failed to update task",
     "Failed to delete task", "Failed to get AI suggestions",
     "Failed to fetch context entries", "Failed to add context entry",
     "Failed to update context entry", "Failed to delete context entry",
     "Failed to analyze content",
     "Failed to fetch categories", "Failed to create category",
     "Failed to update category", "Failed to delete category"}

\* C2: every failed request raises an error toast in the step that handles
\* the failure.
C2_EveryFailureToasts == [][FailureSettles => toast' \in ErrorToasts]_vars

StoredFrameFields == TaskRowFields \ {"updated_at"}

\* C3: an update that succeeds leaves every stored field that is not in the
\* payload as it was, updated_at apart; an update with the payload of
\* handleStatusChange leaves title, description, category, priority_score and
\* deadline as they were.
C3_UpdateFrame ==
    [][(/\ lastCall' # lastCall
        /\ lastCall'.api = "PUT /tasks/{id}"
        /\ lastCall'.code = OK)
       => LET old == RowOf(tasksTable, lastCall'.id)
              new == RowOf(tasksTable', lastCall'.id)
              p   == lastCall'.body[1]
          IN  /\ \A f \in StoredFrameFields \ DOMAIN p : new[f] = old[f]
              /\ (\E status \in Statuses : p = StatusPayload(status))
                    => \A f \in {"title", "description", "category",
                                 "priority_score", "deadline"} : new[f] = old[f]
    ]_vars

\* a status change was applied to the seeded task
C3_Witness ==
    /\ lastCall.api = "PUT /tasks/{id}" /\ lastCall.code = OK
    /\ DOMAIN lastCall.body[1] = {"status"}
    /\ lastCall.data[1].priority_score = 8
    /\ lastCall.data[1].updated_at > lastCall.data[1].created_at

\* C4: a task id whose delete succeeded is not in the store, and a get of it
\* answered after the delete is NotFound.
C4_DeletedStaysGone ==
    /\ \A id \in deleted : ~HasId(tasksTable, id)
    /\ (lastCall.api = "GET /tasks/{id}" /\ lastCall.afterDelete)
          => lastCall.code = NotFound

\* a get of a deleted id was answered after another task had been created
C4_Witness ==
    /\ lastCall.api = "GET /tasks/{id}" /\ lastCall.afterDelete
    /\ tasksTable # {}

\* C5: total_tasks of statistics() is the number of tasks list() returns.
C5_TotalIsListCount ==
    /\ Statistics(tasksTable, now).total_tasks = Len(ListTasks(tasksTable, now))
    /\ lastCall.api = "GET /tasks/statistics/"
          => lastCall.data[1].total_tasks = Len(ListTasks(tasksTable, now))

\* statistics were read with a cancelled task among two
C5_Witness ==
    /\ lastCall.api = "GET /tasks/statistics/"
    /\ lastCall.data[1].total_tasks = 2
    /\ \E r \in tasksTable : r.status = "cancelled"

\* C7: every stored task, and every task an answer carries, has a priority
\* from 1 to 10 and one of the four statuses.
C7_StoredValuesInRange ==
    LET InRange(r) ==
            /\ r.priority_score \in 1..10
            /\ r.status \in {"pending", "in_progress", "completed", "cancelled"}
    IN  /\ \A r \in tasksTable : InRange(r)
        /\ lastCall.api \in {"POST /tasks/", "PUT /tasks/{id}", "GET /tasks/{id}",
                             "GET /tasks/"}
              => \A i \in 1..Len(lastCall.data) : InRange(lastCall.data[i])

\* an update asking for priority 11 was refused
C7_Witness ==
    /\ lastCall.api = "PUT /tasks/{id}"
    /\ lastCall.body[1] = [priority_score |-> 11]
    /\ lastCall.code = ValidationError
    /\ tasksTable # {}

\* the answers of the suggestion endpoint whose external call did not succeed
DegradedIn(bag) ==
    {m \in BagToSet(bag) :
        /\ m.api = "POST /tasks/ai-suggestions/" /\ m.phase = "resp"
        /\ m.ext \in {"failed", "timed out"}}

\* C6: when the external model call fails or times out, the ai-suggestions
\* request is answered with success and the fallback body (priority_score 5,
\* suggested_deadline null), and the form that receives the answer stores it
\* as a suggestion and shows no error.
C6_FallbackInsteadOfError ==
    [][/\ \A m \in DegradedIn(msgs') :
            /\ m.code = "200"
            /\ Len(m.data) = 1
            /\ m.data[1].priority_score = 5
            /\ m.data[1].suggested_deadline = <<>>
       /\ \A m \in DegradedIn(msgs) :
            msgs' = msgs (-) SetToBag({m})
               => /\ toast' = "none"
                  /\ aiSuggestions' = <<m.data[1]>>
                  /\ showAISuggestions']_vars

\* the form shows a fallback suggestion whose description is the one sent
C6_Witness ==
    /\ aiSuggestions # Null
    /\ aiSuggestions[1].ai_suggested_tags = <<>>
    /\ aiSuggestions[1].priority_score = 5
    /\ aiSuggestions[1].enhanced_description = <<"b">>
    /\ showAISuggestions
    /\ toast = "none"

\* C9: the priority of every suggestion the endpoint returns, of the
\* suggestion the form holds and of the form itself is within 1..10, also
\* after applyAISuggestions.
C9_SuggestedPriorityInRange ==
    /\ \A m \in Fulfilled("POST /tasks/ai-suggestions/") :
          m.data[1].priority_score \in 1..10
    /\ aiSuggestions # <<>> => aiSuggestions[1].priority_score \in 1..10
    /\ formData.priority_score \in 1..10

\* a suggestion the model scored above the range was applied to the form
C9_Witness ==
    /\ aiSuggestions # Null
    /\ ~showAISuggestions
    /\ formData.priority_score = 10
    /\ formData.description = <<"e">>
    /\ formData.category = "Work"

\* C10: no ai-suggestions request, pending or answered, carries a title
\* that is empty or only whitespace.
C10_NoBlankTitleRequested ==
    \A m \in InFlight :
        m.api = "POST /tasks/ai-suggestions/"
           => \E i \in 1..Len(m.body[1].title) : m.body[1].title[i] # " "

\* a request went out with a padded title and the form now holds a blank one
C10_Witness ==
    /\ \E m \in Requests("POST /tasks/ai-suggestions/") :
          m.body[1].title = <<" ", "a", " ">>
    /\ formData.title = <<" ">>

\* the task satisfies every predicate the filters make active
SatisfiesActive(t) ==
    /\ filters.status # "" => t.status = filters.status
    /\ filters.category # "" => t.category = filters.category
    /\ filters.priority # "" =>
          \E n \in 1..10 : NumberToString(n) = filters.priority /\ t.priority_score = n
    /\ filters.overdue => t.is_overdue

\* the task matches the search box, when the search box is in use
MatchesSearch(t) ==
    \/ searchQuery = <<>>
    \/ Includes(ToLowerCase(t.title), ToLowerCase(searchQuery))
    \/ Includes(ToLowerCase(t.description), ToLowerCase(searchQuery))

\* C8: the filtered list of the tasks page and of the dashboard holds exactly
\* the fetched tasks that satisfy every active predicate among status,
\* category, priority and overdue (and match the search): every listed task
\* satisfies them, none that satisfies them is missing, none is listed twice.
C8_FilterIsExact ==
    LET wanted == {i \in 1..Len(tasks) :
                      SatisfiesActive(tasks[i]) /\ MatchesSearch(tasks[i])}
    IN  /\ {filteredTasks[i] : i \in 1..Len(filteredTasks)} = {tasks[i] : i \in wanted}
        /\ Len(filteredTasks) = Cardinality(wanted)

\* status, priority and overdue are all active, one of two tasks is listed
C8_Witness ==
    /\ page = "tasks"
    /\ filters.status = "in_progress" /\ filters.priority = "8" /\ filters.overdue
    /\ filters.category = "Work"
    /\ Len(tasks) = 2
    /\ Len(filteredTasks) = 1

\* the form is opened, in this step, with no task to edit
OpenedForNewTask == ~showTaskForm /\ showTaskForm' /\ selectedTask' = <<>>

\* C11: whenever the task form is opened with no task to edit, its data is
\* the defaults (empty title and description, no category, priority 5, no
\* deadline, status pending) and no suggestion is held, whatever earlier
\* sessions entered; and a create request the form sends carries the form's
\* data as it stands, so an untouched priority and status go out as 5 and
\* pending.
C11_NewFormHasDefaults ==
    [][/\ OpenedForNewTask =>
            /\ formData' = [title |-> <<>>, description |-> <<>>, category |-> "",
                            priority_score |-> 5, deadline |-> <<>>,
                            status |-> "pending"]
            /\ aiSuggestions' = <<>>
       /\ \A m \in Requests("POST /tasks/")' \ Requests("POST /tasks/") :
            m.body[1] = formData]_vars

\* the form is open for a new task in its second session, with the defaults,
\* while a create request of the first session, with priority 9, is pending
C11_Witness ==
    /\ showTaskForm /\ selectedTask = Null /\ formSession = 2
    /\ formData.priority_score = 5 /\ formData.title = <<>>
    /\ \E m \in Requests("POST /tasks/") :
          m.session = 1 /\ m.body[1].priority_score = 9

C13_LoadingExcludesError ==
    \A h \in ListHooks : ~(loading[h] /\ error[h] # <<>>)

\* the tasks list() returns now whose is_overdue flag is set
FlaggedOverdue ==
    LET list == ListTasks(tasksTable, now)
    IN  {i \in 1..Len(list) : list[i].is_overdue}

\* C14 as stated: the overdue_tasks statistic is the number of tasks whose
\* is_overdue flag is set, cancelled tasks with a past deadline included.
C14_OverdueCountIsFlagCount ==
    Statistics(tasksTable, now).overdue_tasks = Cardinality(FlaggedOverdue)

\* C14 amended: the overdue_tasks statistic is the number of tasks whose
\* is_overdue flag is set and whose status is not cancelled; a cancelled
\* task with a past deadline is flagged but not counted.
C14_OverdueCountSkipsCancelled ==
    LET list == ListTasks(tasksTable, now)
    IN  Statistics(tasksTable, now).overdue_tasks =
            Cardinality({i \in FlaggedOverdue : list[i].status # "cancelled"})

\* statistics are read, with none overdue, while the only flagged task is a
\* cancelled one
C14_Witness ==
    /\ lastCall.api = "GET /tasks/statistics/"
    /\ lastCall.data[1] = Statistics(tasksTable, now)
    /\ lastCall.data[1].overdue_tasks = 0
    /\ \E r \in tasksTable : r.status = "cancelled" /\ IsOverdue(r, now)

FormRequests ==
    {m \in InFlight :
        m.session > 0 /\ m.api \in {Route("create", "tasks"), Route("update", "tasks")}}

\* C16: the task form closes after a submit only when the submitted request
\* has been answered with success, and when a request started by the form
\* fails, the form is then open and still holds the data that was submitted.
C16_FormClosesOnlyOnSuccess ==
    [][/\ (isSubmitting /\ ~showTaskForm')
              => \A m \in FormRequests : m.session # formSession
       /\ \A m \in FormRequests :
             (m.phase = "resp" /\ m.code # OK /\ ~BagIn(m, msgs'))
                 => showTaskForm' /\ formData' = m.body[1]]_vars

\* C17: at most one create or update request started from the task form is
\* in flight at any time, and while one is in flight isSubmitting is true
\* (so that a further submit is ignored and the form cannot be closed).
C17_OneFormRequestInFlight ==
    /\ Cardinality(FormRequests) <= 1
    /\ FormRequests # {} => isSubmitting

\* the stored fields of the tasks in the local list of useTasks
LocalTasks == {Restrict(tasks[i], TaskRowFields) : i \in 1..Len(tasks)}

\* the mount fetch of useTasks, the only fetch of the page, has succeeded
FetchSucceeded == ~loading["useTasks"] /\ error["useTasks"] = Null

\* C18: whenever no request is in flight and a fetch has succeeded, the
\* local task list of useTasks holds exactly the tasks the store holds, with
\* the same ids and the same field values.
C18_ListMatchesStore ==
    (msgs = EmptyBag /\ FetchSucceeded) => LocalTasks = tasksTable

\* C19: no two entries of the local list of a hook share an id.
C19_ListIdsDistinct ==
    \A h \in ListHooks :
        \A i, j \in 1..Len(ListOf(h)) :
            ListOf(h)[i].id = ListOf(h)[j].id => i = j

\* suggestions are on display in the task form
SuggestionsShown == showTaskForm /\ showAISuggestions /\ aiSuggestions # Null

\* C20: the suggestions shown in the task form were requested during the
\* current session of the form: the form opens with none on display, and
\* when the answer to a request of an earlier session arrives, the form
\* shows afterwards only what it showed before.
C20_SuggestionsOfThisSession ==
    [][/\ formSession' # formSession => ~SuggestionsShown'
       /\ \A m \in Fulfilled("POST /tasks/ai-suggestions/") :
             (m.session # formSession /\ ~BagIn(m, msgs'))
                 => (SuggestionsShown'
                        => SuggestionsShown /\ aiSuggestions' = aiSuggestions)]_vars

\* the list fetches of hook h that have not completed in the client
FetchesInFlight(h) == {m \in InFlight : m.api = Route("getAll", Resource(h))}

\* C21: the loading flag of a mounted list hook is true exactly while at
\* least one of its list fetches is in flight, also when two fetches
\* overlap; it is false once every fetch has completed.
C21_LoadingWhileFetching ==
    \A h \in MountedLists : loading[h] <=> FetchesInFlight(h) # {}

\* the promise of exchange m settles in this step
Settles(m) == m \in InFlight /\ CopiesIn(m, msgs') < CopiesIn(m, msgs)

\* the entries of list before position i that have the id
Skipped(list, id, i) == Cardinality({j \in 1..i : list[j].id = id})

\* C22: when a create, update or delete of a list hook succeeds, the hook's
\* list changes as the operation prescribes and its loading flag, its error
\* and the other hooks' lists stay as they are: create puts the returned item
\* first and keeps the others in order; update replaces the entries with the
\* given id in place and adds nothing when no entry has it; delete removes
\* the entries with the given id and keeps the others in order.
C22_MutationFrame ==
    [][\A h \in ListHooks : \A m \in InFlight :
          (Settles(m) /\ m.phase = "resp" /\ m.code = OK
               /\ m.api \in {Route(op, Resource(h)) : op \in {"create", "update", "delete"}})
          => LET old == ListOf(h)
                 new == ListOf(h)'
             IN
             /\ m.api = Route("create", Resource(h)) =>
                   /\ Len(new) = Len(old) + 1
                   /\ new[1] = m.data[1]
                   /\ \A i \in 1..Len(old) : new[i + 1] = old[i]
             /\ m.api = Route("update", Resource(h)) =>
                   /\ Len(new) = Len(old)
                   /\ \A i \in 1..Len(old) :
                         new[i] = IF old[i].id = m.id THEN m.data[1] ELSE old[i]
             /\ m.api = Route("delete", Resource(h)) =>
                   /\ Len(new) = Len(old) - Skipped(old, m.id, Len(old))
                   /\ \A i \in 1..Len(old) :
                         old[i].id # m.id => new[i - Skipped(old, m.id, i)] = old[i]
             /\ \A g \in ListHooks \ {h} : ListOf(g)' = ListOf(g)
             /\ UNCHANGED <<loading, error>>]_vars

\* the answer to an update has arrived after the task was deleted on the
\* server and removed from the list
C22_Witness ==
    /\ toast = SuccessToast("useTasks", "update")
    /\ tasks = <<>>
    /\ deleted # {}

\* the Dashboard has loaded its task list and its statistics and waits for
\* no answer
DashboardSettled ==
    /\ page = "dashboard"
    /\ msgs = EmptyBag
    /\ ~loading["useTasks"] /\ error["useTasks"] = Null
    /\ statistics # Null

\* C23: on the Dashboard the statistics shown equal the counts of the
\* Dashboard's own task list (Total Tasks is its length, Pending Tasks the
\* number of its pending tasks) after any creates, status changes and
\* deletes done there.
C23_StatisticsFollowList ==
    DashboardSettled =>
        /\ statistics[1].total_tasks = Len(tasks)
        /\ statistics[1].pending_tasks = CountStatus(tasks, "pending")

\* C24: the current_workload sent with a suggestions request is the number
\* of pending tasks in the task list the page displays when the request is
\* made.
C24_WorkloadIsPagePending ==
    [][\A m \in BagToSet(msgs') :
          (m.api = "POST /tasks/ai-suggestions/" /\ m.phase = "req" /\ ~BagIn(m, msgs))
              => m.body[1].current_workload = CountStatus(tasks, "pending")]_vars

\* the tasks that pass the Dashboard's filters and are not in the section
NotShown ==
    {Dashboard_filteredTasks[i] :
        i \in (Len(recentTasks) + 1)..Len(Dashboard_filteredTasks)}

\* C25: the Recent Tasks section of the Dashboard shows at most six tasks,
\* and no task that passes the filters and is left out was created later
\* than a task that is shown.
C25_RecentAreNewest ==
    page = "dashboard" =>
        /\ Len(recentTasks) <= RecentLimit
        /\ \A i \in 1..Len(recentTasks) : \A u \in NotShown :
              u.created_at <= recentTasks[i].created_at

\* task a may stand before task b in a list ordered by the key
InOrder(a, b, by) ==
    CASE by = "priority" -> a.priority_score >= b.priority_score
      [] by = "deadline" ->
            /\ a.deadline = Null => b.deadline = Null
            /\ (a.deadline # Null /\ b.deadline # Null) => a.deadline[1] <= b.deadline[1]
      [] by = "title" -> LocaleCompare(a.title, b.title) <= 0
      [] by = "status" -> StatusRank(a.status) <= StatusRank(b.status)
      [] OTHER -> a.created_at >= b.created_at

\* the tasks of the hook's list that pass the filters of the tasks page
PassingTasks == {tasks[i] : i \in {k \in 1..Len(tasks) : TaskPasses(tasks[k], searchQuery, filters)}}

\* the filtered list of the tasks page is ordered by the chosen key and is
\* a permutation of the tasks that pass the filters
SortedPermutation ==
    page = "tasks" =>
        LET out == TasksPage_filteredTasks
        IN
        /\ \A i, j \in 1..Len(out) : i < j => InOrder(out[i], out[j], sortBy)
        /\ {out[i] : i \in 1..Len(out)} = PassingTasks
        /\ Len(out) = Cardinality(PassingTasks)

\* C26: the filtered list of the tasks page is always ordered by the chosen
\* key (priority descending; deadline ascending with the tasks that have
\* none last; title and status ascending; otherwise newest created_at
\* first) and is a permutation of the tasks that pass the filters; and
\* choosing a sort key leaves the hook's task list as it was.
C26_SortedPermutation ==
    /\ []SortedPermutation
    /\ [][sortBy' # sortBy => tasks' = tasks]_vars

\* sorting by deadline has moved a task without deadline behind one with a
\* deadline
C26_Witness ==
    /\ page = "tasks" /\ sortBy = "deadline"
    /\ Len(tasks) = 2
    /\ tasks[1].deadline = Null /\ tasks[2].deadline # Null
    /\ TasksPage_filteredTasks = <<tasks[2], tasks[1]>>

\* C27: the badges of any two task cards on display have the same variant
\* exactly when the two priority scores lie in the same documented band.
C27_BadgeFollowsBands ==
    \A i, j \in 1..Len(tasks) :
        (getPriorityColor(tasks[i].priority_score)
            = getPriorityColor(tasks[j].priority_score))
        <=> (PriorityBand(tasks[i].priority_score)
                = PriorityBand(tasks[j].priority_score))
====
